---- MODULE Spec2Model ----
(***************************************************************************)
(* ProgressPlot (portilooplot/jupyter_plot.py): the incremental chart      *)
(* state machine.  An instance owns a configuration (plots, lines, window  *)
(* capacity, x-axis mode), an internal iterator and a bounded rolling      *)
(* History of samples; updates are normalised by _parse_y, appended and    *)
(* drawn through the display callback.                                     *)
(***************************************************************************)
EXTENDS Integers, Sequences, FiniteSets, TLC

(***************************************************************************)
(* Bounds of the model.                                                    *)
(***************************************************************************)
MaxPlots == 2       \* plots (facets) of an instance: 1..MaxPlots
MaxLines == 2       \* lines of an instance: 1..MaxLines
MaxWindow == 2      \* max_window_len: 1..MaxWindow
MaxVal == 1         \* numbers fed as y values: 0..MaxVal
MaxX == 1           \* caller-supplied x values: 0..MaxX
MaxBatch == 2       \* datapoints of one update_with_datapoints call: 0..MaxBatch
MaxCalls == 2       \* operations called over the life of an instance
MaxUpdates == 3     \* the same, of an instance that is only updated
MaxNames == 3       \* plots, and lines, passed to the constructor: 1..MaxNames
MaxColors == 2      \* colors passed to the constructor: 0..MaxColors

Vals == 0..MaxVal

PlotNamePool == <<"plot", "plot-2", "plot-3", "plot-4">>
LineNamePool == <<"line-1", "line-2", "line-3", "line-4">>

VARIABLES
    _plots,           \* self._plots: the plot (facet) names
    line_names,       \* self.line_names
    max_window_len,   \* self.max_window_len: the capacity of History
    x_iterator,       \* the x_iterator flag that bound self.update at construction
    iterator,         \* self.iterator
    data,             \* History: the samples kept by the base class, oldest first
    display_calls,    \* number of invocations of self.display_fn so far
    displayed,        \* the History part of the payload last handed to self.display_fn
    call,             \* the operation last called, with its arguments
    err,              \* how that call ended: NoError or the exception it raised
    appended,         \* every sample ever passed to append, in order (history variable)
    updates_ok,       \* number of update calls that returned normally (history variable)
    calls,            \* number of operations called so far
    line_colors,      \* self.line_colors: the color of each line
    y_lim,            \* self.y_lim: the y-limit pair of each plot
    x_lim,            \* self.x_lim
    x_label,          \* self.x_label
    width,            \* self.width
    height,           \* self.height
    display_event,    \* the display_fn invocation of the last call: its outcome and
                      \* self.iterator at that moment
    ctor,             \* the arguments passed to __init__ (history variable)
    instance          \* whether __init__ returned an instance

vars == <<_plots, line_names, max_window_len, x_iterator, iterator, data,
          display_calls, displayed, call, err, appended, updates_ok, calls,
          line_colors, y_lim, x_lim, x_label, width, height, display_event,
          ctor, instance>>

config == <<_plots, line_names, max_window_len, x_iterator,
            line_colors, y_lim, x_lim, x_label, width, height>>

construction == <<ctor, instance>>

(***************************************************************************)
(* Python values.  A value is a record: its type, its number (scalars),    *)
(* its items (lists) and its mapping (dicts); an item of a list is a       *)
(* record with its type, its number and its own items (numbers).           *)
(***************************************************************************)
Range(s) == {s[i] : i \in 1..Len(s)}

Min(a, b) == IF a < b THEN a ELSE b

SeqsUpTo(S, n) == UNION {[1..k -> S] : k \in 0..n}

EmptyDict == [k \in {} |-> 0]

PyDict(m) == [type |-> "dict", num |-> 0, items |-> <<>>, map |-> m]
PyList(s) == [type |-> "list", num |-> 0, items |-> s, map |-> EmptyDict]
PyScalar(t, n) == [type |-> t, num |-> n, items |-> <<>>, map |-> EmptyDict]
PyOther(t) == [type |-> t, num |-> 0, items |-> <<>>, map |-> EmptyDict]

ItemList(s) == [type |-> "list", num |-> 0, items |-> s]
ItemScalar(n) == [type |-> "int", num |-> n, items |-> <<>>]

\* isinstance(y, classes): bool is a subclass of int
IsInstance(y, classes) ==
    \/ y.type \in classes
    \/ y.type = "bool" /\ "int" \in classes

(***************************************************************************)
(* Exceptions: the ValueError messages of the normaliser, and the failure  *)
(* of the display callback.                                                *)
(***************************************************************************)
NoError == "none"
ErrUnsupported == "Not supported data type for update. Should be one of dict/list/float."
ErrPlotCount == "Number of plot updates not equal to number of plots!"
ErrLineType == "Line updates not of type list!"
ErrLineCount == "Number of line update values not equal to number of lines!"
ErrScalar == "Can only update with int/float with one plot and one line."
ErrDisplay == "display_fn raised"

Return(v) == [exc |-> NoError, val |-> v]
Raise(e) == [exc |-> e, val |-> EmptyDict]

\* {k: v for k, v in zip(keys, vals)}: zip stops at the shorter, a later key wins
ZipDict(keys, vals) ==
    LET n == Min(Len(keys), Len(vals))
    IN  [k \in {keys[i] : i \in 1..n} |->
            vals[CHOOSE i \in 1..n : keys[i] = k /\ \A j \in 1..n : keys[j] = k => j <= i]]

\* mutant: the number of line values is not checked
_y_list_to_dict_unchecked_lines(y) ==
    IF ~(Len(y.items) = Len(_plots))
    THEN Raise(ErrPlotCount)
    ELSE IF ~(\A i \in 1..Len(y.items) : IsInstance(y.items[i], {"list"}))
    THEN Raise(ErrLineType)
    ELSE Return(ZipDict(_plots,
                        [i \in 1..Len(y.items) |-> ZipDict(line_names, y.items[i].items)]))

\* mutant: the number of plot updates is not checked
_y_list_to_dict_unchecked_plots(y) ==
    IF ~(\A i \in 1..Len(y.items) : IsInstance(y.items[i], {"list"}))
    THEN Raise(ErrLineType)
    ELSE IF ~(\A i \in 1..Len(y.items) : Len(y.items[i].items) = Len(line_names))
    THEN Raise(ErrLineCount)
    ELSE Return(ZipDict(_plots,
                        [i \in 1..Len(y.items) |-> ZipDict(line_names, y.items[i].items)]))

\* mutant: the line values are zipped with the line names in reverse
_y_list_to_dict_reversed(y) ==
    IF ~(Len(y.items) = Len(_plots))
    THEN Raise(ErrPlotCount)
    ELSE IF ~(\A i \in 1..Len(y.items) : IsInstance(y.items[i], {"list"}))
    THEN Raise(ErrLineType)
    ELSE IF ~(\A i \in 1..Len(y.items) : Len(y.items[i].items) = Len(line_names))
    THEN Raise(ErrLineCount)
    ELSE Return(ZipDict(_plots,
                        [i \in 1..Len(y.items) |->
                            ZipDict(line_names,
                                    [j \in 1..Len(y.items[i].items) |->
                                        y.items[i].items[Len(y.items[i].items) + 1 - j]])]))

_y_list_to_dict(y) ==
    IF ~(Len(y.items) = Len(_plots))
    THEN Raise(ErrPlotCount)
    ELSE IF ~(\A i \in 1..Len(y.items) : IsInstance(y.items[i], {"list"}))
    THEN Raise(ErrLineType)
    ELSE IF ~(\A i \in 1..Len(y.items) : Len(y.items[i].items) = Len(line_names))
    THEN Raise(ErrLineCount)
    ELSE Return(ZipDict(_plots,
                        [i \in 1..Len(y.items) |-> ZipDict(line_names, y.items[i].items)]))

\* mutant: one plot or one line is enough for a number
_y_scalar_to_dict_or(y) ==
    IF ~(Len(_plots) = 1 \/ Len(line_names) = 1)
    THEN Raise(ErrScalar)
    ELSE Return([p \in {_plots[1]} |-> [l \in {line_names[1]} |-> y.num]])

_y_scalar_to_dict(y) ==
    IF ~(Len(_plots) = 1 /\ Len(line_names) = 1)
    THEN Raise(ErrScalar)
    ELSE Return([p \in {_plots[1]} |-> [l \in {line_names[1]} |-> y.num]])

\* mutant: a value of any other type is taken for a number
_parse_y_lenient(y) ==
    IF IsInstance(y, {"dict"}) THEN Return(y.map)
    ELSE IF IsInstance(y, {"list"}) THEN _y_list_to_dict(y)
    ELSE _y_scalar_to_dict(y)

_parse_y(y) ==
    IF IsInstance(y, {"dict"}) THEN Return(y.map)
    ELSE IF IsInstance(y, {"list"}) THEN _y_list_to_dict(y)
    ELSE IF IsInstance(y, {"int", "float"}) THEN _y_scalar_to_dict(y)
    ELSE Raise(ErrUnsupported)

(***************************************************************************)
(* The base class (PlotLearningCurve): append and draw.                    *)
(***************************************************************************)
Sample(x, y) == [x |-> x, y |-> y]

\* mutant: at capacity the newest sample is evicted, not the oldest
append_evict_newest(hist, x, y) ==
    IF Len(hist) >= max_window_len
    THEN Append(SubSeq(hist, 1, Len(hist) - 1), Sample(x, y))
    ELSE Append(hist, Sample(x, y))

\* append(x, y): push the sample, evicting the oldest one at capacity
append(hist, x, y) ==
    IF Len(hist) >= max_window_len
    THEN Append(Tail(hist), Sample(x, y))
    ELSE Append(hist, Sample(x, y))

\* draw(): the payload holds the whole current History
draw(hist) == hist

(***************************************************************************)
(* The values callers pass.                                                *)
(***************************************************************************)
\* the list of m items, each a list of n numbers, all distinct, counting from v
Grid(v, m, n) ==
    [i \in 1..m |-> ItemList([j \in 1..n |-> v + (i - 1) * n + (j - 1)])]

\* items that are no list of Len(line_names) numbers: a shorter or longer list, a number
OddItems ==
    {ItemList([j \in 1..n |-> j]) : n \in (0..MaxLines) \ {Len(line_names)}}
        \cup {ItemScalar(0)}

\* lists: every m x n grid (the well-shaped ones with each first number), and
\* the well-shaped grid with one item replaced by an odd one
ListInputs ==
    {PyList(Grid(0, m, n)) : m \in 0..MaxPlots, n \in 0..MaxLines}
        \cup {PyList(Grid(v, Len(_plots), Len(line_names))) : v \in Vals}
        \cup {PyList([Grid(0, Len(_plots), Len(line_names)) EXCEPT ![i] = o]) :
                 i \in 1..Len(_plots), o \in OddItems}

ScalarInputs == {PyScalar(t, n) : t \in {"int", "float", "bool"}, n \in Vals}

OtherInputs == {PyOther(t) : t \in {"str", "NoneType", "tuple"}}

\* a dict with the given plots, each with the given lines
Mapping(plots, lines) == [p \in Range(plots) |-> [l \in Range(lines) |-> 0]]

\* dicts: the canonical one, and ones that miss the last plot or the last line
Mappings ==
    {Mapping(_plots, line_names),
     Mapping(SubSeq(_plots, 1, Len(_plots) - 1), line_names),
     Mapping(_plots, SubSeq(line_names, 1, Len(line_names) - 1))}

DictInputs == {PyDict(m) : m \in Mappings}

YInputs == DictInputs \cup ListInputs \cup ScalarInputs \cup OtherInputs

XInputs == 0..MaxX

\* the datapoints of update_with_datapoints: well-shaped lists, a number, a
\* string, a dict that misses a line
Datapoints ==
    {PyList(Grid(v, Len(_plots), Len(line_names))) : v \in Vals}
        \cup {PyScalar("int", 0), PyOther("str"),
              PyDict(Mapping(_plots, SubSeq(line_names, 1, Len(line_names) - 1)))}

BatchInputs == SeqsUpTo(Datapoints, MaxBatch)

NoArg == PyOther("NoneType")

Call(op, x, y, ys) == [op |-> op, x |-> x, y |-> y, datapoints |-> ys]

(***************************************************************************)
(* Construction.  A limit is a number or None (auto); a y_lim argument is  *)
(* one shared pair [min, max] or a list with one pair for each plot; a     *)
(* line_colors argument is None or a list of colors.                       *)
(***************************************************************************)
Auto == [auto |-> TRUE, num |-> 0]
Fixed(n) == [auto |-> FALSE, num |-> n]

Limits == {Auto} \cup {Fixed(v) : v \in Vals}

SharedYLim(pair) == [shared |-> TRUE, pair |-> pair, pairs |-> <<>>]
PerPlotYLim(pairs) == [shared |-> FALSE, pair |-> <<Auto, Auto>>, pairs |-> pairs]

NoColors == [none |-> TRUE, items |-> <<>>]
ColorList(cs) == [none |-> FALSE, items |-> cs]

ColorPool == <<"#ff0000", "#00ff00", "#0000ff", "#ffff00">>

\* plt.rcParams["axes.prop_cycle"].by_key()["color"]
DefaultPalette ==
    <<"#1f77b4", "#ff7f0e", "#2ca02c", "#d62728", "#9467bd",
      "#8c564b", "#e377c2", "#7f7f7f", "#bcbd22", "#17becf">>

DefaultWidth == 600
DefaultXLabel == "iteration"

ErrYLim == "Unequal number of y limits and plots."

CtorArgs(plot_names, names, colors, ylim, xiter, window) ==
    [plot_names |-> plot_names, line_names |-> names, line_colors |-> colors,
     x_lim |-> <<Auto, Auto>>, y_lim |-> ylim, x_label |-> DefaultXLabel,
     x_iterator |-> xiter, height |-> Auto, width |-> DefaultWidth,
     max_window_len |-> window]

\* the y_lim arguments: every shared pair, and the lists of 1..MaxNames + 1
\* pairs, all distinct
YLimInputs ==
    {SharedYLim(<<lo, hi>>) : lo \in Limits, hi \in Limits}
        \cup {PerPlotYLim([i \in 1..k |-> <<Fixed(v + i - 1), Fixed(v + i)>>]) :
                 k \in 1..(MaxNames + 1), v \in Vals}

\* the line_colors arguments: None, and the lists of 0..MaxColors colors
ColorInputs ==
    {NoColors} \cup {ColorList(cs) : cs \in SeqsUpTo(Range(SubSeq(ColorPool, 1, MaxColors)), MaxColors)}

CtorInputs ==
    {CtorArgs(SubSeq(PlotNamePool, 1, n), SubSeq(LineNamePool, 1, m), c, yl, it, w) :
        n \in 1..MaxNames, m \in 1..MaxNames, c \in ColorInputs, yl \in YLimInputs,
        it \in BOOLEAN, w \in 1..MaxWindow}

\* the arguments of the instances that are operated: the default colors and limits
DefaultCtorInputs ==
    {CtorArgs(SubSeq(PlotNamePool, 1, n), SubSeq(LineNamePool, 1, m), NoColors,
              SharedYLim(<<Auto, Auto>>), it, w) :
        n \in 1..MaxPlots, m \in 1..MaxLines, it \in BOOLEAN, w \in 1..MaxWindow}

\* mutant: the number of y limits is not compared with the number of plots
y_lim_of_unchecked(ylim, plot_names) ==
    IF ~ylim.shared
    THEN Return(ylim.pairs)
    ELSE Return([i \in 1..Len(plot_names) |-> ylim.pair])

\* self.y_lim: the list as passed, or the shared pair once for each plot
y_lim_of(ylim, plot_names) ==
    IF ~ylim.shared
    THEN IF Len(ylim.pairs) = Len(plot_names)
         THEN Return(ylim.pairs)
         ELSE Raise(ErrYLim)
    ELSE Return([i \in 1..Len(plot_names) |-> ylim.pair])

\* mutant: past the end of the colors the last color is repeated
line_colors_of_clamped(colors, names) ==
    LET cs == IF colors.none \/ colors.items = <<>> THEN DefaultPalette ELSE colors.items
    IN  [i \in 1..Len(names) |-> cs[Min(i, Len(cs))]]

\* self.line_colors: the color cycle over the lines
line_colors_of(colors, names) ==
    LET cs == IF colors.none \/ colors.items = <<>> THEN DefaultPalette ELSE colors.items
    IN  [i \in 1..Len(names) |-> cs[((i - 1) % Len(cs)) + 1]]

\* _setup_plot: the line and facet configurations handed to the base class
line_config == ZipDict(line_names, line_colors)
facet_config == ZipDict(_plots, y_lim)

NoDisplay == [outcome |-> "none", iterator |-> 0]
DisplayEvent(ok, it) == [outcome |-> IF ok THEN "returned" ELSE "raised", iterator |-> it]

\* the state __init__(a) leaves when it returns
Init ==
    \E a \in DefaultCtorInputs :
        /\ ctor = a
        /\ instance = TRUE
        /\ _plots = a.plot_names
        /\ line_names = a.line_names
        /\ max_window_len = a.max_window_len
        /\ x_iterator = a.x_iterator
        /\ line_colors = line_colors_of(a.line_colors, a.line_names)
        /\ y_lim = y_lim_of(a.y_lim, a.plot_names).val
        /\ x_lim = a.x_lim
        /\ x_label = a.x_label
        /\ width = a.width
        /\ height = a.height
        /\ iterator = 0
        /\ data = <<>>
        /\ display_calls = 0
        /\ displayed = <<>>
        /\ display_event = NoDisplay
        /\ call = Call("__init__", 0, NoArg, <<>>)
        /\ err = NoError
        /\ appended = <<>>
        /\ updates_ok = 0
        /\ calls = 0

\* before __init__ is called with the arguments ctor
InitNew ==
    /\ ctor \in CtorInputs
    /\ instance = FALSE
    /\ _plots = <<>>
    /\ line_names = <<>>
    /\ max_window_len = 0
    /\ x_iterator = FALSE
    /\ line_colors = <<>>
    /\ y_lim = <<>>
    /\ x_lim = <<>>
    /\ x_label = ""
    /\ width = 0
    /\ height = Auto
    /\ iterator = 0
    /\ data = <<>>
    /\ display_calls = 0
    /\ displayed = <<>>
    /\ display_event = NoDisplay
    /\ call = Call("new", 0, NoArg, <<>>)
    /\ err = NoError
    /\ appended = <<>>
    /\ updates_ok = 0
    /\ calls = 0

\* __init__(**ctor): raises when the y limits do not match the plots, and
\* otherwise returns the instance
__init__ ==
    LET yl == y_lim_of(ctor.y_lim, ctor.plot_names)
    IN  /\ ~instance
        /\ call.op = "new"
        /\ call' = Call("__init__", 0, NoArg, <<>>)
        /\ err' = yl.exc
        /\ IF yl.exc # NoError
           THEN UNCHANGED <<config, instance>>
           ELSE /\ instance' = TRUE
                /\ _plots' = ctor.plot_names
                /\ line_names' = ctor.line_names
                /\ max_window_len' = ctor.max_window_len
                /\ x_iterator' = ctor.x_iterator
                /\ line_colors' = line_colors_of(ctor.line_colors, ctor.line_names)
                /\ y_lim' = yl.val
                /\ x_lim' = ctor.x_lim
                /\ x_label' = ctor.x_label
                /\ width' = ctor.width
                /\ height' = ctor.height
        /\ UNCHANGED <<ctor, iterator, data, display_calls, displayed, display_event,
                       appended, updates_ok, calls>>

\* mutant: draw() is called before append
_update_with_x_draws_first(x, y, display_ok) ==
    LET r == _parse_y(y)
        d == append(data, x, r.val)
    IN  IF r.exc # NoError
        THEN [exc |-> r.exc, data |-> data, appended |-> appended,
              display_calls |-> display_calls, displayed |-> displayed]
        ELSE [exc |-> IF display_ok THEN NoError ELSE ErrDisplay,
              data |-> d, appended |-> Append(appended, Sample(x, r.val)),
              display_calls |-> display_calls + 1, displayed |-> draw(data)]

\* mutant: a failure of display_fn is caught
_update_with_x_catches(x, y, display_ok) ==
    LET r == _parse_y(y)
        d == append(data, x, r.val)
    IN  IF r.exc # NoError
        THEN [exc |-> r.exc, data |-> data, appended |-> appended,
              display_calls |-> display_calls, displayed |-> displayed]
        ELSE [exc |-> NoError,
              data |-> d, appended |-> Append(appended, Sample(x, r.val)),
              display_calls |-> display_calls + 1, displayed |-> draw(d)]

(***************************************************************************)
(* Operations.  display_ok is the outcome of the display callback.         *)
(***************************************************************************)
\* _update_with_x(x, y): the state it leaves, as <<exception, data, appended,
\* display_calls, displayed>>
_update_with_x(x, y, display_ok) ==
    LET r == _parse_y(y)
        d == append(data, x, r.val)
    IN  IF r.exc # NoError
        THEN [exc |-> r.exc, data |-> data, appended |-> appended,
              display_calls |-> display_calls, displayed |-> displayed]
        ELSE [exc |-> IF display_ok THEN NoError ELSE ErrDisplay,
              data |-> d, appended |-> Append(appended, Sample(x, r.val)),
              display_calls |-> display_calls + 1, displayed |-> draw(d)]

\* mutant: the iterator is incremented before the sample is appended
_update_with_iter_incremented_first(y, display_ok) ==
    LET u == _update_with_x(iterator + 1, y, display_ok)
    IN  /\ x_iterator
        /\ call' = Call("update", 0, y, <<>>)
        /\ err' = u.exc
        /\ data' = u.data
        /\ appended' = u.appended
        /\ display_calls' = u.display_calls
        /\ displayed' = u.displayed
        /\ iterator' = IF u.exc = NoError THEN iterator + 1 ELSE iterator
        /\ updates_ok' = IF u.exc = NoError THEN updates_ok + 1 ELSE updates_ok
        /\ calls' = calls + 1
        /\ display_event' = IF u.display_calls > display_calls
                            THEN DisplayEvent(display_ok, iterator)
                            ELSE NoDisplay
        /\ UNCHANGED <<config, construction>>

\* update(y) of an instance built with x_iterator=True
_update_with_iter(y, display_ok) ==
    LET u == _update_with_x(iterator, y, display_ok)
    IN  /\ x_iterator
        /\ call' = Call("update", 0, y, <<>>)
        /\ err' = u.exc
        /\ data' = u.data
        /\ appended' = u.appended
        /\ display_calls' = u.display_calls
        /\ displayed' = u.displayed
        /\ iterator' = IF u.exc = NoError THEN iterator + 1 ELSE iterator
        /\ updates_ok' = IF u.exc = NoError THEN updates_ok + 1 ELSE updates_ok
        /\ calls' = calls + 1
        /\ display_event' = IF u.display_calls > display_calls
                            THEN DisplayEvent(display_ok, iterator)
                            ELSE NoDisplay
        /\ UNCHANGED <<config, construction>>

\* mutant: update(x, y) advances the iterator too
Update_with_x_counting(x, y, display_ok) ==
    LET u == _update_with_x(x, y, display_ok)
    IN  /\ ~x_iterator
        /\ call' = Call("update", x, y, <<>>)
        /\ err' = u.exc
        /\ data' = u.data
        /\ appended' = u.appended
        /\ display_calls' = u.display_calls
        /\ displayed' = u.displayed
        /\ updates_ok' = IF u.exc = NoError THEN updates_ok + 1 ELSE updates_ok
        /\ calls' = calls + 1
        /\ iterator' = IF u.exc = NoError THEN iterator + 1 ELSE iterator
        /\ display_event' = IF u.display_calls > display_calls
                            THEN DisplayEvent(display_ok, iterator)
                            ELSE NoDisplay
        /\ UNCHANGED <<config, construction>>

\* update(x, y) of an instance built with x_iterator=False
Update_with_x(x, y, display_ok) ==
    LET u == _update_with_x(x, y, display_ok)
    IN  /\ ~x_iterator
        /\ call' = Call("update", x, y, <<>>)
        /\ err' = u.exc
        /\ data' = u.data
        /\ appended' = u.appended
        /\ display_calls' = u.display_calls
        /\ displayed' = u.displayed
        /\ updates_ok' = IF u.exc = NoError THEN updates_ok + 1 ELSE updates_ok
        /\ calls' = calls + 1
        /\ display_event' = IF u.display_calls > display_calls
                            THEN DisplayEvent(display_ok, iterator)
                            ELSE NoDisplay
        /\ UNCHANGED <<config, construction, iterator>>

\* mutant: the datapoints are appended at their position in the sequence,
\* not at the iterator
RECURSIVE consume_by_position(_, _)
consume_by_position(ys, st) ==
    IF ys = <<>>
    THEN st
    ELSE LET r == _parse_y(Head(ys))
             x == st.iterator - iterator
         IN  IF r.exc # NoError
             THEN [st EXCEPT !.exc = r.exc]
             ELSE consume_by_position(Tail(ys),
                          [st EXCEPT !.data = append(st.data, x, r.val),
                                     !.appended = Append(st.appended, Sample(x, r.val)),
                                     !.iterator = st.iterator + 1])

\* the loop of update_with_datapoints over the datapoints left, from the state
\* st = [exc, data, appended, iterator]: it stops at the first datapoint that
\* _parse_y rejects
RECURSIVE consume(_, _)
consume(ys, st) ==
    IF ys = <<>>
    THEN st
    ELSE LET r == _parse_y(Head(ys))
         IN  IF r.exc # NoError
             THEN [st EXCEPT !.exc = r.exc]
             ELSE consume(Tail(ys),
                          [st EXCEPT !.data = append(st.data, st.iterator, r.val),
                                     !.appended = Append(st.appended, Sample(st.iterator, r.val)),
                                     !.iterator = st.iterator + 1])

\* mutant: the call rebinds update to the internal iterator
update_with_datapoints_rebinding(datapoints, display_ok) ==
    LET st == consume(datapoints, [exc |-> NoError, data |-> data,
                                   appended |-> appended, iterator |-> iterator])
        drawn == st.exc = NoError
    IN  /\ call' = Call("update_with_datapoints", 0, NoArg, datapoints)
        /\ err' = IF drawn /\ ~display_ok THEN ErrDisplay ELSE st.exc
        /\ data' = st.data
        /\ appended' = st.appended
        /\ iterator' = st.iterator
        /\ display_calls' = IF drawn THEN display_calls + 1 ELSE display_calls
        /\ displayed' = IF drawn THEN draw(st.data) ELSE displayed
        /\ display_event' = IF drawn THEN DisplayEvent(display_ok, st.iterator) ELSE NoDisplay
        /\ calls' = calls + 1
        /\ x_iterator' = TRUE
        /\ UNCHANGED <<_plots, line_names, max_window_len, line_colors, y_lim, x_lim,
                       x_label, width, height, construction, updates_ok>>

\* mutant: draw() is called in the loop, once for each datapoint
update_with_datapoints_draw_each(datapoints, display_ok) ==
    LET st == consume(datapoints, [exc |-> NoError, data |-> data,
                                   appended |-> appended, iterator |-> iterator])
        n == Len(st.appended) - Len(appended)
    IN  /\ call' = Call("update_with_datapoints", 0, NoArg, datapoints)
        /\ err' = IF n > 0 /\ ~display_ok THEN ErrDisplay ELSE st.exc
        /\ data' = st.data
        /\ appended' = st.appended
        /\ iterator' = st.iterator
        /\ display_calls' = display_calls + n
        /\ displayed' = IF n > 0 THEN draw(st.data) ELSE displayed
        /\ display_event' = IF n > 0 THEN DisplayEvent(display_ok, st.iterator) ELSE NoDisplay
        /\ calls' = calls + 1
        /\ UNCHANGED <<config, construction, updates_ok>>

update_with_datapoints(datapoints, display_ok) ==
    LET st == consume(datapoints, [exc |-> NoError, data |-> data,
                                   appended |-> appended, iterator |-> iterator])
        drawn == st.exc = NoError
    IN  /\ call' = Call("update_with_datapoints", 0, NoArg, datapoints)
        /\ err' = IF drawn /\ ~display_ok THEN ErrDisplay ELSE st.exc
        /\ data' = st.data
        /\ appended' = st.appended
        /\ iterator' = st.iterator
        /\ display_calls' = IF drawn THEN display_calls + 1 ELSE display_calls
        /\ displayed' = IF drawn THEN draw(st.data) ELSE displayed
        /\ display_event' = IF drawn THEN DisplayEvent(display_ok, st.iterator) ELSE NoDisplay
        /\ calls' = calls + 1
        /\ UNCHANGED <<config, construction, updates_ok>>

\* append(x, y) called directly: no validation of y
Append_direct(x, m) ==
    /\ call' = Call("append", x, PyDict(m), <<>>)
    /\ err' = NoError
    /\ data' = append(data, x, m)
    /\ appended' = Append(appended, Sample(x, m))
    /\ calls' = calls + 1
    /\ display_event' = NoDisplay
    /\ UNCHANGED <<config, construction, iterator, display_calls, displayed, updates_ok>>

\* draw() called directly
Draw_direct(display_ok) ==
    /\ call' = Call("draw", 0, NoArg, <<>>)
    /\ err' = IF display_ok THEN NoError ELSE ErrDisplay
    /\ display_calls' = display_calls + 1
    /\ displayed' = draw(data)
    /\ display_event' = DisplayEvent(display_ok, iterator)
    /\ calls' = calls + 1
    /\ UNCHANGED <<config, construction, iterator, data, appended, updates_ok>>

(***************************************************************************)
(* Specifications.  Spec: every operation.  SpecEntry: the entry points    *)
(* that normalise their input (update and update_with_datapoints).         *)
(* SpecUpdate: an instance with the internal iterator, driven by update(y) *)
(* alone.  SpecConstruct: the constructor, on every argument.              *)
(***************************************************************************)
Next ==
    /\ calls < MaxCalls
    /\ \/ \E y \in YInputs, ok \in BOOLEAN : _update_with_iter(y, ok)
       \/ \E x \in XInputs, y \in YInputs, ok \in BOOLEAN : Update_with_x(x, y, ok)
       \/ \E ys \in BatchInputs, ok \in BOOLEAN : update_with_datapoints(ys, ok)
       \/ \E x \in XInputs, m \in Mappings : Append_direct(x, m)
       \/ \E ok \in BOOLEAN : Draw_direct(ok)

Spec == Init /\ [][Next]_vars

NextEntry ==
    /\ calls < MaxCalls
    /\ \/ \E y \in YInputs, ok \in BOOLEAN : _update_with_iter(y, ok)
       \/ \E x \in XInputs, y \in YInputs, ok \in BOOLEAN : Update_with_x(x, y, ok)
       \/ \E ys \in BatchInputs, ok \in BOOLEAN : update_with_datapoints(ys, ok)

SpecEntry == Init /\ [][NextEntry]_vars

InitIter == Init /\ x_iterator

NextUpdate ==
    /\ calls < MaxUpdates
    /\ \E y \in YInputs, ok \in BOOLEAN : _update_with_iter(y, ok)

SpecUpdate == InitIter /\ [][NextUpdate]_vars

NextConstruct == __init__

SpecConstruct == InitNew /\ [][NextConstruct]_vars

(***************************************************************************)
(* Vocabulary of the properties.                                           *)
(***************************************************************************)
\* the spec's error kinds, as the ValueErrors of the normaliser
ShapeMismatchError == {ErrPlotCount, ErrLineType, ErrLineCount, ErrScalar}
UnsupportedTypeError == {ErrUnsupported}
NormalizationError == ShapeMismatchError \cup UnsupportedTypeError

Last(s) == s[Len(s)]
LastN(s, n) == SubSeq(s, Len(s) - n + 1, Len(s))
Xs(hist) == [i \in 1..Len(hist) |-> hist[i].x]

\* the step is a call of the operation op
Called(op) == calls' = calls + 1 /\ call'.op = op

\* y is a list that is not Len(_plots) lists of Len(line_names) values each
BadShape(y) ==
    /\ y.type = "list"
    /\ \/ Len(y.items) # Len(_plots)
       \/ \E i \in 1..Len(y.items) :
             y.items[i].type = "list" /\ Len(y.items[i].items) # Len(line_names)

\* y is a list of Len(_plots) lists of Len(line_names) values each
GoodShape(y) ==
    /\ y.type = "list"
    /\ Len(y.items) = Len(_plots)
    /\ \A i \in 1..Len(y.items) :
          y.items[i].type = "list" /\ Len(y.items[i].items) = Len(line_names)

\* m has every configured plot and, in each, every configured line
Covers(m) ==
    /\ Range(_plots) \subseteq DOMAIN m
    /\ \A p \in Range(_plots) : Range(line_names) \subseteq DOMAIN m[p]

\* the normaliser accepts y
Valid(y) == _parse_y(y).exc = NoError

(***************************************************************************)
(* C1: History is exactly the last min(n, C) of the n samples appended so  *)
(* far, oldest first; its length is C once n > C and never exceeds C.      *)
(***************************************************************************)
C1_HistoryIsLastAppended ==
    /\ data = LastN(appended, Min(Len(appended), max_window_len))
    /\ Len(data) <= max_window_len
    /\ Len(appended) > max_window_len => Len(data) = max_window_len

C1_Witness ==
    /\ max_window_len = 2
    /\ Len(appended) = 3
    /\ appended[1] # appended[2]
    /\ data = <<appended[2], appended[3]>>

(***************************************************************************)
(* C2: update with a list whose outer length is not the number of plots,   *)
(* or with an inner list whose length is not the number of lines, raises a *)
(* shape-mismatch error and leaves History, the iterator and the number of *)
(* display calls as they were.                                             *)
(***************************************************************************)
C2_BadListRejected ==
    [][(Called("update") /\ BadShape(call'.y)) =>
          /\ err' \in ShapeMismatchError
          /\ data' = data
          /\ iterator' = iterator
          /\ display_calls' = display_calls]_vars

C2_Witness ==
    /\ call.op = "update"
    /\ BadShape(call.y)
    /\ Len(call.y.items) = Len(_plots)
    /\ err \in ShapeMismatchError
    /\ Len(data) = 1
    /\ display_calls = 1

(***************************************************************************)
(* C3: when normalisation of a value fails in update(y), update(x, y) or   *)
(* update_with_datapoints, History is what it was before the call.         *)
(***************************************************************************)
C3_NoPartialUpdate ==
    [][((Called("update") \/ Called("update_with_datapoints"))
            /\ err' \in NormalizationError) => data' = data]_vars

(***************************************************************************)
(* C4: update_with_datapoints with n valid datapoints calls the display    *)
(* callback exactly once, with all n datapoints appended, and advances the *)
(* iterator by n; an update(y) with a valid value calls it exactly once,   *)
(* so n such updates call it n times.                                      *)
(***************************************************************************)
C4_BatchedDraw ==
    [][/\ (Called("update_with_datapoints")
              /\ \A i \in 1..Len(call'.datapoints) : Valid(call'.datapoints[i])) =>
             /\ display_calls' = display_calls + 1
             /\ iterator' = iterator + Len(call'.datapoints)
             /\ Len(appended') = Len(appended) + Len(call'.datapoints)
             /\ displayed' = data'
       /\ (Called("update") /\ Valid(call'.y)) =>
             display_calls' = display_calls + 1]_vars

C4_Witness ==
    /\ call.op = "update_with_datapoints"
    /\ Len(call.datapoints) = 2
    /\ \A i \in 1..2 : Valid(call.datapoints[i])
    /\ calls = 1
    /\ display_calls = 1
    /\ iterator = 2
    /\ Len(displayed) = 2

(***************************************************************************)
(* C5: on a fresh instance with the internal iterator, the k-th update(y)  *)
(* that returns normally appends a sample with x = k - 1 and leaves the    *)
(* iterator at k; with capacity 2, after three updates History has length  *)
(* 2 and x-values <<1, 2>>.                                                *)
(***************************************************************************)
C5_IteratorCountsUpdates ==
    /\ (call.op = "update" /\ err = NoError) =>
          /\ Last(appended).x = updates_ok - 1
          /\ Last(data).x = updates_ok - 1
          /\ iterator = updates_ok
    /\ (calls = 3 /\ updates_ok = 3 /\ max_window_len = 2) => Xs(data) = <<1, 2>>

C5_Witness ==
    /\ call.op = "update"
    /\ err = NoError
    /\ calls = 3
    /\ updates_ok = 3
    /\ max_window_len = 2
    /\ Xs(data) = <<1, 2>>
    /\ iterator = 3

(***************************************************************************)
(* C6: on an instance with the internal iterator, driven through update(y) *)
(* and update_with_datapoints, the x-values of History are strictly        *)
(* increasing, also after a call that ended with an error.                 *)
(***************************************************************************)
C6_IncreasingX ==
    x_iterator => \A i \in 1..(Len(data) - 1) : data[i].x < data[i + 1].x

(***************************************************************************)
(* C7: every sample of History covers every plot and every line, whatever  *)
(* the shape of the values passed to update and update_with_datapoints.    *)
(***************************************************************************)
C7_EverySampleCovers == \A i \in 1..Len(data) : Covers(data[i].y)

(***************************************************************************)
(* C7, amended: a sample appended from a number or a list covers every     *)
(* plot and every line; a sample appended from a dict holds that dict as   *)
(* it was passed.                                                          *)
(***************************************************************************)
C7_CoversUnlessDict ==
    [][(Called("update") \/ Called("update_with_datapoints")) =>
          \A i \in 1..(Len(appended') - Len(appended)) :
              LET s == appended'[Len(appended) + i]
                  y == IF call'.op = "update" THEN call'.y ELSE call'.datapoints[i]
              IN  IF y.type = "dict" THEN s.y = y.map ELSE Covers(s.y)]_vars

C7_Witness ==
    /\ Len(_plots) = 2
    /\ Len(line_names) = 2
    /\ Len(data) = 2
    /\ call.op = "update"
    /\ call.y.type = "list"
    /\ Covers(data[2].y)
    /\ ~Covers(data[1].y)

(***************************************************************************)
(* C8: update with a number is accepted exactly when there is one plot and *)
(* one line, and the sample holds {plot: {line: y}}; otherwise it raises a *)
(* shape-mismatch error and leaves History and the iterator as they were.  *)
(***************************************************************************)
C8_ScalarUpdate ==
    [][(Called("update") /\ call'.y.type \in {"int", "float"}) =>
          IF Len(_plots) = 1 /\ Len(line_names) = 1
          THEN /\ err' \notin NormalizationError
               /\ Len(appended') = Len(appended) + 1
               /\ DOMAIN Last(data').y = {_plots[1]}
               /\ DOMAIN Last(data').y[_plots[1]] = {line_names[1]}
               /\ Last(data').y[_plots[1]][line_names[1]] = call'.y.num
          ELSE /\ err' \in ShapeMismatchError
               /\ data' = data
               /\ iterator' = iterator]_vars

C8_Witness ==
    /\ call.op = "update"
    /\ call.y.type = "float"
    /\ call.y.num = 1
    /\ err = NoError
    /\ Len(_plots) = 1
    /\ Len(line_names) = 1
    /\ Len(data) = 2
    /\ Last(data).y[_plots[1]][line_names[1]] = 1
    /\ Covers(data[1].y)
    /\ data[1].y[_plots[1]][line_names[1]] = 0

(***************************************************************************)
(* C9: a list of Len(_plots) lists of Len(line_names) values normalises to *)
(* the dict whose keys are the plot names, each with the line names as its *)
(* keys, and whose value at plot i, line j is y[i][j].                     *)
(***************************************************************************)
C9_ListZipsPositionally ==
    (call.op = "update" /\ GoodShape(call.y)) =>
        /\ err \notin NormalizationError
        /\ LET m == Last(appended).y
           IN  /\ DOMAIN m = Range(_plots)
               /\ \A i \in 1..Len(_plots) :
                     /\ DOMAIN m[_plots[i]] = Range(line_names)
                     /\ \A j \in 1..Len(line_names) :
                           m[_plots[i]][line_names[j]] = call.y.items[i].items[j]

C9_Witness ==
    /\ call.op = "update"
    /\ GoodShape(call.y)
    /\ Len(_plots) = 2
    /\ Len(line_names) = 2
    /\ Last(data).y["plot"]["line-2"] = 2
    /\ Last(data).y["plot-2"]["line-1"] = 3

(***************************************************************************)
(* C10: update with a value that is no dict, no sequence and no number     *)
(* raises the unsupported-type error and leaves History, the iterator and  *)
(* the number of display calls as they were.                               *)
(***************************************************************************)
C10_UnsupportedRejected ==
    [][(Called("update")
            /\ call'.y.type \notin {"dict", "list", "tuple", "int", "float", "bool"}) =>
          /\ err' \in UnsupportedTypeError
          /\ data' = data
          /\ iterator' = iterator
          /\ display_calls' = display_calls]_vars

C10_Witness ==
    /\ call.op = "update"
    /\ call.y.type = "str"
    /\ err = ErrUnsupported
    /\ Len(data) = 1
    /\ display_calls = 1

(***************************************************************************)
(* C12: built with L lines and K >= 1 colors, every line has one color and *)
(* line i (from 0) has colors[i mod K]: with 2 lines and 1 color both have *)
(* it, with 3 lines and 2 colors the third has the first color.            *)
(***************************************************************************)
C12_ColorCycle ==
    (instance /\ ~ctor.line_colors.none /\ ctor.line_colors.items # <<>>) =>
        LET cs == ctor.line_colors.items
            L == Len(ctor.line_names)
        IN  /\ Len(line_colors) = L
            /\ DOMAIN line_config = Range(ctor.line_names)
            /\ \A i \in 0..(L - 1) :
                  /\ line_colors[i + 1] = cs[(i % Len(cs)) + 1]
                  /\ line_config[ctor.line_names[i + 1]] = cs[(i % Len(cs)) + 1]
            /\ (L = 2 /\ Len(cs) = 1) => line_colors = <<cs[1], cs[1]>>
            /\ (L = 3 /\ Len(cs) = 2) => line_colors[3] = cs[1]

C12_Witness ==
    /\ instance
    /\ ctor.line_colors = ColorList(<<"#ff0000", "#00ff00">>)
    /\ Len(line_names) = 3
    /\ line_colors = <<"#ff0000", "#00ff00", "#ff0000">>

C14_IteratorAdvancedAtDisplay ==
    (x_iterator /\ call.op = "update" /\ display_event.outcome # "none") =>
        /\ display_event.iterator = Last(data).x + 1
        /\ iterator = Last(data).x + 1

(***************************************************************************)
(* C15: update normalises, then appends, then draws: the display callback  *)
(* is not invoked when normalisation fails, and the payload it gets has    *)
(* the sample of this call's x and normalised y as its newest entry.       *)
(***************************************************************************)
C15_NormalizeAppendDraw ==
    [][Called("update") =>
          IF Valid(call'.y)
          THEN /\ display_calls' = display_calls + 1
               /\ displayed' # <<>>
               /\ Last(displayed') =
                     Sample(IF x_iterator THEN iterator ELSE call'.x, _parse_y(call'.y).val)
               /\ Last(data') = Last(displayed')
          ELSE /\ display_calls' = display_calls
               /\ displayed' = displayed
               /\ data' = data]_vars

C15_Witness ==
    /\ call.op = "update"
    /\ call.y.type = "list"
    /\ call.x = 1
    /\ ~x_iterator
    /\ Len(displayed) = 2
    /\ Last(displayed).x = 1
    /\ Covers(Last(displayed).y)
    /\ Last(displayed).y["plot"]["line-1"] = 1

(***************************************************************************)
(* C16: update_with_datapoints takes x from the internal iterator in       *)
(* either mode: the i-th datapoint (from 0) is appended with x = iterator  *)
(* at the start of the call + i, and the iterator ends advanced by the     *)
(* number of datapoints.                                                   *)
(***************************************************************************)
C16_BatchUsesIterator ==
    [][Called("update_with_datapoints") =>
          LET n == Len(appended') - Len(appended)
          IN  /\ \A i \in 0..(n - 1) :
                    appended'[Len(appended) + i + 1] =
                        Sample(iterator + i, _parse_y(call'.datapoints[i + 1]).val)
              /\ iterator' = iterator + n
              /\ (\A i \in 1..Len(call'.datapoints) : Valid(call'.datapoints[i])) =>
                    n = Len(call'.datapoints)]_vars

C16_Witness ==
    /\ ~x_iterator
    /\ call.op = "update_with_datapoints"
    /\ Len(call.datapoints) = 2
    /\ calls = 2
    /\ iterator = 3
    /\ max_window_len = 2
    /\ Xs(data) = <<1, 2>>

(***************************************************************************)
(* C17: with external x, update(x, y) appends a sample with the x passed,  *)
(* whatever the earlier ones, History keeps the order of insertion, and    *)
(* the iterator is left as it was.                                         *)
(***************************************************************************)
C17_ExternalX ==
    [][(Called("update") /\ ~x_iterator) =>
          /\ iterator' = iterator
          /\ Valid(call'.y) =>
                /\ Last(data').x = call'.x
                /\ appended' = Append(appended, Sample(call'.x, _parse_y(call'.y).val))
                /\ LET kept == Len(data') - 1
                   IN  SubSeq(data', 1, kept) = LastN(data, kept)]_vars

C17_Witness ==
    /\ ~x_iterator
    /\ call.op = "update"
    /\ calls = 2
    /\ iterator = 0
    /\ Xs(data) = <<1, 0>>

(***************************************************************************)
(* C18: when the display callback fails in draw(), update or               *)
(* update_with_datapoints, the call ends with that failure, and the        *)
(* samples the call appended before it stay in History.                    *)
(***************************************************************************)
C18_DisplayFailurePropagates ==
    display_event.outcome = "raised" =>
        /\ err = ErrDisplay
        /\ LET n == IF call.op = "update" THEN 1
                    ELSE IF call.op = "update_with_datapoints" THEN Len(call.datapoints)
                    ELSE 0
               k == Min(n, max_window_len)
           IN  /\ Len(data) >= k
               /\ Len(appended) >= n
               /\ LastN(data, k) = LastN(appended, k)
               /\ call.op = "update" =>
                     Last(data).y = _parse_y(call.y).val

C18_Witness ==
    /\ display_event.outcome = "raised"
    /\ err = ErrDisplay
    /\ call.op = "update"
    /\ calls = 1
    /\ Len(data) = 1
    /\ Covers(data[1].y)

(***************************************************************************)
(* C19: no operation changes the configuration (plots, lines, colors,      *)
(* y-limits, x-limit, x label, window capacity, canvas size, x mode); the  *)
(* iterator never decreases; draw() changes neither History nor the        *)
(* iterator.                                                               *)
(***************************************************************************)
C19_ConfigurationFixed ==
    [][/\ _plots' = _plots
       /\ line_names' = line_names
       /\ line_colors' = line_colors
       /\ y_lim' = y_lim
       /\ x_lim' = x_lim
       /\ x_label' = x_label
       /\ max_window_len' = max_window_len
       /\ width' = width
       /\ height' = height
       /\ x_iterator' = x_iterator
       /\ iterator' >= iterator
       /\ Called("draw") => (data' = data /\ iterator' = iterator)]_vars

C19_Witness ==
    /\ calls = 2
    /\ call.op = "draw"
    /\ ~x_iterator
    /\ iterator = 2
    /\ Len(data) = 2
    /\ _plots = ctor.plot_names
    /\ line_names = ctor.line_names
    /\ max_window_len = ctor.max_window_len
    /\ width = DefaultWidth

====
